---- MODULE Spec2Model ----
(***************************************************************************)
(* The persistence and query layer of the classroom application.           *)
(*                                                                         *)
(* Two implementations of the layer are in the repository:                 *)
(*   - src/database.py : the document (MongoDB) facade.  Every function is *)
(*     one or more single-document operations; each is applied at once.    *)
(*   - src/app.py      : the relational request handlers (cursor/execute/  *)
(*     commit on a DB-API connection).  A handler's statements run in one  *)
(*     transaction that conn.commit() ends (read committed isolation).     *)
(* The variable backend says which of the two a behaviour runs on.         *)
(*                                                                         *)
(* Identifiers.  A key is a record [k, v]: k = "oid" is the backend's      *)
(* native key (ObjectId / serial id) number v; k = "str" is a string:      *)
(* Str(i) is the canonical string encoding of key i, BadStr a malformed    *)
(* one.                                                                    *)
(***************************************************************************)
EXTENDS Integers, Sequences, FiniteSets, Bags, TLC

\* ---------------------------------------------------------------- bounds
MaxCourses == 2
MaxEnroll == 2
MaxPosts == 3
MaxReplies == 3
MaxTime == 2
MaxSubs == 3

Sessions == {1, 2}
Names == {"ann", "bob", "cat"}
Roles == {"teacher", "student"}
\* the (username, role) pairs submitted to registration
RegInputs == {<<"ann", "teacher">>, <<"bob", "student">>, <<"cat", "student">>}

\* ------------------------------------------------------------ identifiers
Oid(i) == [k |-> "oid", v |-> i]
Str(i) == [k |-> "str", v |-> i]
BadStr == Str(0)
\* the string literal '$$course_id' of get_available_courses' pipeline
LookupVarLiteral == Str(-1)

\* bson.ObjectId(s): the strings that parse
ValidObjectIdString(value) == value.k = "str" /\ value.v >= 1

to_object_id(value) ==
    IF value.k = "str"
    THEN IF ValidObjectIdString(value) THEN Oid(value.v) ELSE value
    ELSE value

\* usernames are unique, so there are at most as many users as names
UserKeys == {Oid(i) : i \in 1..Cardinality(Names)}
CourseKeys == {Oid(i) : i \in 1..MaxCourses}
\* identifier tokens callers pass to the document facade
UserTokens == UserKeys \cup {Str(i) : i \in 1..Cardinality(Names)} \cup {BadStr}
CourseTokens == CourseKeys \cup {Str(i) : i \in 1..MaxCourses} \cup {BadStr}
\* the teacher_id tokens passed to create_course, the user_id and course_id tokens
\* passed to enroll_student and the course_id tokens passed to create_post
TeacherInputs == {Oid(1), Str(1), Oid(2), BadStr}
EnrollUserInputs == {Oid(2), Str(2), Oid(3), BadStr}
EnrollCourseInputs == {Oid(1), Str(1), Oid(2)}
PostCourseInputs == {Oid(1), Str(1), Oid(2)}

VARIABLES
    backend,     \* "doc" (src/database.py) or "sql" (src/app.py)
    users,       \* set of [id, username, role]
    courses,     \* set of [id, teacher_id]
    enrollment,  \* bag of [user_id, course_id]
    sess,        \* relational request handlers in flight: session -> record
    last,        \* the operation that finished last: [op, pre, out]
    enrolledOk,  \* history: course key -> number of enroll operations that succeeded
    posts,       \* set of [id, course_id, timestamp]
    replies,     \* bag of [post_id]
    now,         \* the clock datetime.now() reads
    fetched,     \* the result get_course_posts returned in this step, or NotFetched
    repliesMade, \* history: post key -> number of replies created for it
    attendance,  \* committed attendance rows: set of [student_id, course_id, date, status, by]
    att,         \* attendance submissions in flight: session -> record
    done,        \* the submission that finished in this step, or NotDone
    recorded,    \* history: the (course, date) pairs a finished submission left rows for
    nsub,        \* submissions started so far (a row's "by" is its submission's number)
    held         \* TRUE when a connection (client) that an operation acquired is
                 \* still open after the operation has ended

forumVars == <<posts, replies, now, fetched, repliesMade>>
attVars == <<attendance, att, done, recorded, nsub>>
vars == <<backend, users, courses, enrollment, sess, last, enrolledOk, forumVars, attVars, held>>

Idle == [pc |-> "idle"]
NotFetched == [course |-> BadStr, result |-> <<>>, fresh |-> FALSE]
NotDone == [out |-> "none"]
NoOp == [op |-> "none", pre |-> FALSE, out |-> "none"]

\* -------------------------------------------------------------- connections
\* database.py, get_db_connection(): every call builds a new MongoClient (a pool of
\* its own) and leaves it in the global _db; no function of the module closes one.
get_db_connection ==
    held' = TRUE

\* app.py: the handler reaches cur.close(), conn.close() (or has opened nothing)
conn_close ==
    held' = held

\* app.py: a statement raises and the handler is left before conn.close()
conn_left_open ==
    held' = TRUE

\* ------------------------------------------------------------- bag helpers
\* the rows of bag B that satisfy the row set S, with their multiplicities
BagRestrict(B, S) == [x \in (DOMAIN B) \cap S |-> B[x]]
BagAdd(B, x) == B (+) SetToBag({x})
Rows(B) == BagToSet(B)

\* ------------------------------------------------------------ constraints
\* db['users'].create_index('username', unique=True)
UniqueIndexUsername(rows, username) ==
    \A u \in rows : u.username # username

\* the enrollment collection without its unique index
NoUniqueIndexEnrollment(bag, row) ==
    TRUE

\* db['enrollment'].create_index([('user_id', 1), ('course_id', 1)], unique=True)
UniqueIndexEnrollment(bag, row) ==
    ~ BagIn(row, bag)

\* relational schema: users.username UNIQUE
SqlUniqueUsername(rows, username) ==
    \A u \in rows : u.username # username

\* relational schema: enrollment UNIQUE (user_id, course_id)
SqlUniqueEnrollment(bag, row) ==
    ~ BagIn(row, bag)

\* relational schema: enrollment.course_id REFERENCES courses
SqlForeignKeyCourse(cid) ==
    \E c \in courses : c.id = cid

NextUserId == Oid(Cardinality(users) + 1)
NextCourseId == Oid(Cardinality(courses) + 1)

StudentKeys == {u.id : u \in {u \in users : u.role = "student"}}
CourseIds == {c.id : c \in courses}
Ids(result) == {r.id : r \in result}

UserWithId(id) == {u \in users : u.id = id}
TeacherResolves(value) ==
    \E u \in users : u.id = to_object_id(value) /\ u.role = "teacher"

\* ------------------------------------------------ document facade: writes
\* create_user(username, password_hash, role)
create_user(username, role) ==
    /\ backend = "doc"
    /\ get_db_connection
    /\ IF UniqueIndexUsername(users, username)
       THEN /\ users' = users \cup {[id |-> NextUserId, username |-> username, role |-> role]}
            /\ last' = [op |-> "create_user", pre |-> FALSE, out |-> "ok"]
       ELSE /\ users' = users
            /\ last' = [op |-> "create_user", pre |-> TRUE, out |-> "DuplicateKeyError"]
    /\ UNCHANGED <<backend, courses, enrollment, sess, enrolledOk>>
    /\ UNCHANGED <<forumVars, attVars>>

\* create_course(title, description, teacher_id)
create_course(teacher_id) ==
    /\ backend = "doc"
    /\ get_db_connection
    /\ Cardinality(courses) < MaxCourses
    /\ IF teacher_id.k = "str" /\ ~ ValidObjectIdString(teacher_id)
       THEN \* ObjectId(teacher_id) raises; the except clause re-raises
            /\ courses' = courses
            /\ last' = [op |-> "create_course", pre |-> FALSE, out |-> "InvalidId"]
       ELSE /\ courses' = courses \cup
                  {[id |-> NextCourseId, teacher_id |-> to_object_id(teacher_id)]}
            /\ last' = [op |-> "create_course", pre |-> TeacherResolves(teacher_id),
                        out |-> "ok"]
    /\ UNCHANGED <<backend, users, enrollment, sess, enrolledOk>>
    /\ UNCHANGED <<forumVars, attVars>>

\* enroll_student(user_id, course_id)
enroll_student(user_id, course_id) ==
    LET row == [user_id |-> to_object_id(user_id), course_id |-> to_object_id(course_id)]
    IN  /\ backend = "doc"
        /\ get_db_connection
        /\ IF UniqueIndexEnrollment(enrollment, row)
           THEN /\ BagCardinality(enrollment) < MaxEnroll
                /\ enrollment' = BagAdd(enrollment, row)
                /\ enrolledOk' = [enrolledOk EXCEPT ![row.course_id] = @ + 1]
                /\ last' = [op |-> "enroll", pre |-> BagIn(row, enrollment), out |-> "ok"]
           ELSE /\ UNCHANGED <<enrollment, enrolledOk>>
                /\ last' = [op |-> "enroll", pre |-> TRUE, out |-> "DuplicateKeyError"]
        /\ UNCHANGED <<backend, users, courses, sess>>
        /\ UNCHANGED <<forumVars, attVars>>

\* ------------------------------------------------- document facade: reads
\* is_enrolled(user_id, course_id)
is_enrolled(user_id, course_id) ==
    BagIn([user_id |-> to_object_id(user_id), course_id |-> to_object_id(course_id)],
          enrollment)

\* get_user_by_id(user_id): ObjectId(user_id) raises on a malformed string and the
\* except clause returns None (here: no row)
get_user_by_id(user_id) ==
    IF user_id.k = "str" /\ ~ ValidObjectIdString(user_id)
    THEN {}
    ELSE UserWithId(to_object_id(user_id))

\* get_course(course_id), in the same way
get_course(course_id) ==
    IF course_id.k = "str" /\ ~ ValidObjectIdString(course_id)
    THEN {}
    ELSE {c \in courses : c.id = to_object_id(course_id)}

\* a caller asks is_enrolled(user_id, course_id) and gets its answer
ask_is_enrolled(user_id, course_id) ==
    /\ backend = "doc"
    /\ get_db_connection
    /\ last' = [op |-> "is_enrolled",
                pre |-> \/ to_object_id(user_id).k = "str"
                        \/ to_object_id(course_id).k = "str",
                out |-> IF is_enrolled(user_id, course_id) THEN "true" ELSE "false"]
    /\ UNCHANGED <<backend, users, courses, enrollment, sess, enrolledOk>>
    /\ UNCHANGED <<forumVars, attVars>>

\* the $lookup of enrollment rows by course_id
EnrollmentsOfCourse(cid) ==
    BagRestrict(enrollment, {e \in Rows(enrollment) : e.course_id = cid})

\* $arrayElemAt: ['$teacher.username', 0] of the $lookup of users by teacher_id
TeacherName(c) ==
    IF UserWithId(c.teacher_id) = {} THEN "missing"
    ELSE (CHOOSE u \in UserWithId(c.teacher_id) : TRUE).username

\* get_teacher_courses with the enrollments unwound before counting (an inner join):
\* a course without enrollments is dropped
get_teacher_courses_unwound(teacher_id) ==
    {[id |-> c.id, enrolled_count |-> BagCardinality(EnrollmentsOfCourse(c.id))] :
        c \in {c \in courses : /\ c.teacher_id = to_object_id(teacher_id)
                                /\ BagCardinality(EnrollmentsOfCourse(c.id)) > 0}}

\* get_teacher_courses(teacher_id)
get_teacher_courses(teacher_id) ==
    {[id |-> c.id, enrolled_count |-> BagCardinality(EnrollmentsOfCourse(c.id))] :
        c \in {c \in courses : c.teacher_id = to_object_id(teacher_id)}}

\* get_student_courses(student_id)
get_student_courses(student_id) ==
    {[id |-> c.id, teacher_name |-> TeacherName(c)] :
        c \in {c \in courses :
                 \E e \in Rows(EnrollmentsOfCourse(c.id)) :
                     e.user_id = to_object_id(student_id)}}

\* get_available_courses(student_id): the sub-pipeline's $match compares course_id
\* with the string '$$course_id' (a query match, not an $expr)
get_available_courses(student_id) ==
    {[id |-> c.id, teacher_name |-> TeacherName(c)] :
        c \in {c \in courses :
                 BagCardinality(BagRestrict(enrollment,
                     {e \in Rows(enrollment) :
                         /\ e.user_id = to_object_id(student_id)
                         /\ e.course_id = LookupVarLiteral})) = 0}}

\* --------------------------------------------------- relational handlers
\* register(): SELECT ... WHERE username, then (lines 89-98) INSERT and commit
register_select(s, username, role) ==
    /\ backend = "sql"
    /\ conn_close
    /\ sess[s].pc = "idle"
    /\ IF \E u \in users : u.username = username
       THEN /\ last' = [op |-> "create_user", pre |-> TRUE, out |-> "DuplicateUsername"]
            /\ sess' = sess
       ELSE /\ sess' = [sess EXCEPT ![s] =
                          [pc |-> "register_insert", username |-> username, role |-> role]]
            /\ last' = last
    /\ UNCHANGED <<backend, users, courses, enrollment, enrolledOk>>
    /\ UNCHANGED <<forumVars, attVars>>

register_insert(s) ==
    /\ backend = "sql"
    /\ sess[s].pc = "register_insert"
    /\ IF SqlUniqueUsername(users, sess[s].username)
       THEN /\ users' = users \cup {[id |-> NextUserId, username |-> sess[s].username,
                                     role |-> sess[s].role]}
            /\ last' = [op |-> "create_user", pre |-> FALSE, out |-> "ok"]
            /\ conn_close
       ELSE /\ users' = users
            /\ last' = [op |-> "create_user", pre |-> TRUE, out |-> "IntegrityError"]
            /\ conn_left_open
    /\ sess' = [sess EXCEPT ![s] = Idle]
    /\ UNCHANGED <<backend, courses, enrollment, enrolledOk>>
    /\ UNCHANGED <<forumVars, attVars>>

\* create_course() of app.py, for the logged-in user u
sql_create_course(u) ==
    /\ backend = "sql"
    /\ conn_close
    /\ u \in users
    /\ Cardinality(courses) < MaxCourses
    /\ IF u.role # "teacher"
       THEN /\ courses' = courses
            /\ last' = [op |-> "create_course", pre |-> FALSE, out |-> "OnlyTeachers"]
       ELSE /\ courses' = courses \cup {[id |-> NextCourseId, teacher_id |-> u.id]}
            /\ last' = [op |-> "create_course", pre |-> TRUE, out |-> "ok"]
    /\ UNCHANGED <<backend, users, enrollment, sess, enrolledOk>>
    /\ UNCHANGED <<forumVars, attVars>>

\* enroll(course_id) for the logged-in user u: the SELECT, then the INSERT and commit
enroll_select(s, u, course_id) ==
    /\ backend = "sql"
    /\ conn_close
    /\ sess[s].pc = "idle"
    /\ u \in users
    /\ IF u.role # "student"
       THEN /\ last' = [op |-> "enroll", pre |-> FALSE, out |-> "OnlyStudents"]
            /\ sess' = sess
       ELSE IF BagIn([user_id |-> u.id, course_id |-> course_id], enrollment)
       THEN /\ last' = [op |-> "enroll", pre |-> TRUE, out |-> "AlreadyEnrolled"]
            /\ sess' = sess
       ELSE /\ sess' = [sess EXCEPT ![s] =
                          [pc |-> "enroll_insert", user_id |-> u.id, course_id |-> course_id]]
            /\ last' = last
    /\ UNCHANGED <<backend, users, courses, enrollment, enrolledOk>>
    /\ UNCHANGED <<forumVars, attVars>>

enroll_insert(s) ==
    LET row == [user_id |-> sess[s].user_id, course_id |-> sess[s].course_id]
    IN  /\ backend = "sql"
        /\ sess[s].pc = "enroll_insert"
        /\ IF ~ SqlForeignKeyCourse(row.course_id)
           THEN /\ UNCHANGED <<enrollment, enrolledOk>>
                /\ last' = [op |-> "enroll", pre |-> FALSE, out |-> "ForeignKeyViolation"]
                /\ conn_left_open
           ELSE IF ~ SqlUniqueEnrollment(enrollment, row)
           THEN /\ UNCHANGED <<enrollment, enrolledOk>>
                /\ last' = [op |-> "enroll", pre |-> TRUE, out |-> "IntegrityError"]
                /\ conn_left_open
           ELSE /\ BagCardinality(enrollment) < MaxEnroll
                /\ enrollment' = BagAdd(enrollment, row)
                /\ enrolledOk' = [enrolledOk EXCEPT ![row.course_id] = @ + 1]
                /\ last' = [op |-> "enroll", pre |-> BagIn(row, enrollment), out |-> "ok"]
                /\ conn_close
        /\ sess' = [sess EXCEPT ![s] = Idle]
        /\ UNCHANGED <<backend, users, courses>>
        /\ UNCHANGED <<forumVars, attVars>>

\* enroll() lines 292-295, course() lines 195-197:
\* SELECT * FROM enrollment WHERE user_id = %s AND course_id = %s
sql_is_enrolled(user_id, course_id) ==
    BagIn([user_id |-> user_id, course_id |-> course_id], enrollment)

\* dashboard(), teacher branch: LEFT JOIN enrollment ... GROUP BY c.id
sql_teacher_courses(teacher_id) ==
    {[id |-> c.id,
      enrolled_count |-> BagCardinality(BagRestrict(enrollment,
                            {e \in Rows(enrollment) : e.course_id = c.id}))] :
        c \in {c \in courses : c.teacher_id = teacher_id}}

\* dashboard(), student branch: JOIN users JOIN enrollment WHERE e.user_id = %s
sql_enrolled_courses(student_id) ==
    {[id |-> c.id, teacher_name |-> TeacherName(c)] :
        c \in {c \in courses :
                 /\ UserWithId(c.teacher_id) # {}
                 /\ \E e \in Rows(enrollment) :
                        e.course_id = c.id /\ e.user_id = student_id}}

\* dashboard(), student branch: c.id NOT IN (SELECT course_id ... WHERE user_id = %s)
sql_available_courses(student_id) ==
    {[id |-> c.id, teacher_name |-> TeacherName(c)] :
        c \in {c \in courses :
                 /\ UserWithId(c.teacher_id) # {}
                 /\ c.id \notin {e.course_id : e \in {e \in Rows(enrollment) :
                                                        e.user_id = student_id}}}}

\* ================================================================= forum
PostKeys == {Oid(i) : i \in 1..MaxPosts}
PostTokens == PostKeys \cup {Str(i) : i \in 1..MaxPosts} \cup {BadStr}
NextPostId == Oid(Cardinality(posts) + 1)

\* relational schema: posts.course_id REFERENCES courses, replies.post_id REFERENCES posts
SqlForeignKeyPost(pid) ==
    \E p \in posts : p.id = pid

\* the clock advances between two calls of datetime.now(), or does not
Tick ==
    /\ now < MaxTime
    /\ now' = now + 1
    /\ fetched' = NotFetched
    /\ UNCHANGED <<posts, replies, repliesMade>>
    /\ UNCHANGED <<backend, users, courses, enrollment, sess, last, enrolledOk, attVars, held>>

\* create_post(course_id, user_id, content)
create_post(course_id, user_id) ==
    /\ backend = "doc"
    /\ get_db_connection
    /\ Cardinality(posts) < MaxPosts
    /\ posts' = posts \cup {[id |-> NextPostId, course_id |-> to_object_id(course_id),
                             user_id |-> to_object_id(user_id), timestamp |-> now]}
    /\ fetched' = NotFetched
    /\ UNCHANGED <<replies, now, repliesMade>>
    /\ UNCHANGED <<backend, users, courses, enrollment, sess, last, enrolledOk, attVars>>

\* create_reply(post_id, user_id, content); a reply's author, content and timestamp
\* are read by no query of the layer and are left out of the row
create_reply(post_id) ==
    /\ backend = "doc"
    /\ get_db_connection
    /\ BagCardinality(replies) < MaxReplies
    /\ replies' = BagAdd(replies, [post_id |-> to_object_id(post_id)])
    /\ repliesMade' = [repliesMade EXCEPT ![to_object_id(post_id)] = @ + 1]
    /\ fetched' = NotFetched
    /\ UNCHANGED <<posts, now>>
    /\ UNCHANGED <<backend, users, courses, enrollment, sess, last, enrolledOk, attVars>>

\* post_question(course_id) of app.py, for the logged-in user u
post_question(u, course_id) ==
    /\ backend = "sql"
    /\ u \in users
    /\ Cardinality(posts) < MaxPosts
    /\ IF SqlForeignKeyCourse(course_id)
       THEN /\ posts' = posts \cup {[id |-> NextPostId, course_id |-> course_id,
                                     user_id |-> u.id, timestamp |-> now]}
            /\ conn_close
       ELSE /\ posts' = posts
            /\ conn_left_open
    /\ fetched' = NotFetched
    /\ UNCHANGED <<replies, now, repliesMade>>
    /\ UNCHANGED <<backend, users, courses, enrollment, sess, last, enrolledOk, attVars>>

\* post_reply(post_id) of app.py
post_reply(u, post_id) ==
    /\ backend = "sql"
    /\ u \in users
    /\ BagCardinality(replies) < MaxReplies
    /\ IF SqlForeignKeyPost(post_id)
       THEN /\ replies' = BagAdd(replies, [post_id |-> post_id])
            /\ repliesMade' = [repliesMade EXCEPT ![post_id] = @ + 1]
            /\ conn_close
       ELSE /\ UNCHANGED <<replies, repliesMade>>
            /\ conn_left_open
    /\ fetched' = NotFetched
    /\ UNCHANGED <<posts, now>>
    /\ UNCHANGED <<backend, users, courses, enrollment, sess, last, enrolledOk, attVars>>

RECURSIVE SortByTimestampDesc(_)
\* $sort: {'timestamp': -1} / ORDER BY p.timestamp DESC: every ordering of the rows
\* with non-increasing timestamps (the order of rows with equal keys is not fixed)
SortByTimestampDesc(S) ==
    IF S = {} THEN {<<>>}
    ELSE UNION {{<<x>> \o q : q \in SortByTimestampDesc(S \ {x})} :
                  x \in {x \in S : \A y \in S : x.timestamp >= y.timestamp}}

\* a $lookup of replies on a field that never equals a post's _id
reply_count_wrong_field(p) ==
    BagCardinality(BagRestrict(replies, {r \in Rows(replies) : r.post_id = p.course_id}))

\* $lookup from replies (localField _id, foreignField post_id), $size
reply_count(p) ==
    BagCardinality(BagRestrict(replies, {r \in Rows(replies) : r.post_id = p.id}))

\* $arrayElemAt: ['$user.username', 0] of the $lookup of users by user_id
AuthorName(p) ==
    IF UserWithId(p.user_id) = {} THEN "missing"
    ELSE (CHOOSE u \in UserWithId(p.user_id) : TRUE).username

\* get_course_posts(course_id): the results the aggregation may return
get_course_posts(course_id) ==
    SortByTimestampDesc(
        {[id |-> p.id, timestamp |-> p.timestamp, username |-> AuthorName(p),
          reply_count |-> reply_count(p)] :
            p \in {p \in posts : p.course_id = to_object_id(course_id)}})

\* course(course_id) of app.py, lines 211-220: posts JOIN users LEFT JOIN replies,
\* COUNT(r.id), GROUP BY p.id, ORDER BY p.timestamp DESC
sql_course_posts(course_id) ==
    SortByTimestampDesc(
        {[id |-> p.id, timestamp |-> p.timestamp, username |-> AuthorName(p),
          reply_count |-> BagCardinality(BagRestrict(replies,
                              {r \in Rows(replies) : r.post_id = p.id}))] :
            p \in {p \in posts : p.course_id = course_id /\ UserWithId(p.user_id) # {}}})

\* a caller's get_course_posts(course_id)
fetch_course_posts(course_id) ==
    /\ backend = "doc"
    /\ get_db_connection
    /\ \E r \in get_course_posts(course_id) :
          fetched' = [course |-> to_object_id(course_id), result |-> r, fresh |-> TRUE]
    /\ UNCHANGED <<posts, replies, now, repliesMade>>
    /\ UNCHANGED <<backend, users, courses, enrollment, sess, last, enrolledOk, attVars>>

\* course(course_id) of app.py for the logged-in user u: the course must exist, a
\* student must be enrolled in it and a teacher must own it
course(u, course_id) ==
    /\ backend = "sql"
    /\ conn_close
    /\ u \in users
    /\ IF /\ \E c \in courses : c.id = course_id /\ UserWithId(c.teacher_id) # {}
          /\ u.role = "student" =>
                 BagIn([user_id |-> u.id, course_id |-> course_id], enrollment)
          /\ u.role = "teacher" =>
                 \E c \in courses : c.id = course_id /\ c.teacher_id = u.id
       THEN \E r \in sql_course_posts(course_id) :
                fetched' = [course |-> course_id, result |-> r, fresh |-> TRUE]
       ELSE fetched' = NotFetched
    /\ UNCHANGED <<posts, replies, now, repliesMade>>
    /\ UNCHANGED <<backend, users, courses, enrollment, sess, last, enrolledOk, attVars>>

\* ============================================================ attendance
\* A submission in flight is a record
\*   [pc, course, date, present, roster, full, nenr, sub, ov, ovfail, prior, snap,
\*    deleted, inserted]:
\* roster is the part of the roster still to be written and full the roster as read;
\* nenr is the number of enrollment rows when the roster was read; ov (history) says
\* that another submission for the same (course, date) ran during this one, ovfail
\* that such a submission failed, and prior (history) is the set of rows of
\* (course, date) when the roster was read.  On the
\* relational backend snap is the snapshot of the DELETE statement, and deleted and
\* inserted are the transaction's uncommitted changes.
Dates == {"d1", "d2"}
\* the student_ids lists submitted (strings of student ids)
PresentInputs == {{Str(2)}, {Str(3)}}

Active(s) == att[s].pc # "idle"
SameTarget(s, course_id, date) ==
    Active(s) /\ att[s].course = course_id /\ att[s].date = date

\* str(student['id'])
StrOf(id) == Str(id.v)
\* 'present' if str(student['id']) in student_ids else 'absent'
StatusFor(id, present) == IF StrOf(id) \in present THEN "present" ELSE "absent"

\* the rows a reader sees for (course, date)
Visible(course_id, date) ==
    {r \in attendance : r.course_id = course_id /\ r.date = date}

SameKey(r, q) ==
    r.student_id = q.student_id /\ r.course_id = q.course_id /\ r.date = q.date

\* a roster in the order the query returns it (ascending id)
InIdOrder(S) ==
    CHOOSE q \in [1..Cardinality(S) -> S] :
        \A i, j \in 1..Cardinality(S) : i < j => q[i].v < q[j].v

\* get_course_students whose $match leaves out 'role': 'student'
get_course_students_any_role(course_id) ==
    {u.id : u \in {u \in users :
        \E e \in Rows(enrollment) :
            e.user_id = u.id /\ e.course_id = to_object_id(course_id)}}

\* get_course_students(course_id)
get_course_students(course_id) ==
    {u.id : u \in {u \in users :
        /\ u.role = "student"
        /\ \E e \in Rows(enrollment) :
               e.user_id = u.id /\ e.course_id = to_object_id(course_id)}}

\* take_attendance(), lines 318-323: users JOIN enrollment WHERE course_id, role
sql_roster(course_id) ==
    {u.id : u \in {u \in users :
        /\ u.role = "student"
        /\ \E e \in Rows(enrollment) : e.user_id = u.id /\ e.course_id = course_id}}

\* relational schema: attendance UNIQUE (student_id, course_id, date)
SqlUniqueAttendance(rows, row) ==
    \A r \in rows : ~ SameKey(r, row)

Begun(s, course_id, date, present, full) ==
    [pc |-> "delete", course |-> course_id, date |-> date, present |-> present,
     roster |-> InIdOrder(full), full |-> full, nenr |-> BagCardinality(enrollment),
     sub |-> nsub + 1,
     ov |-> \E t \in Sessions \ {s} : SameTarget(t, course_id, date),
     ovfail |-> FALSE, prior |-> Visible(course_id, date),
     snap |-> {}, deleted |-> {}, inserted |-> {}]

\* the other submissions for the same target learn that they were overlapped
Overlapping(s, course_id, date, rec) ==
    [t \in Sessions |->
        IF t = s THEN rec
        ELSE IF SameTarget(t, course_id, date) THEN [att[t] EXCEPT !.ov = TRUE]
        ELSE att[t]]

Finished(s, out) ==
    [out |-> out, course |-> att[s].course, date |-> att[s].date,
     present |-> att[s].present, roster |-> att[s].full, nenr |-> att[s].nenr,
     ov |-> att[s].ov, ovfail |-> att[s].ovfail, prior |-> att[s].prior,
     sub |-> att[s].sub,
     again |-> <<att[s].course, att[s].date>> \in recorded]

\* submission s is left by an exception: the other submissions for the same target
\* learn that a failed submission ran during them
Raised(s) ==
    [t \in Sessions |->
        IF t = s THEN Idle
        ELSE IF SameTarget(t, att[s].course, att[s].date)
             THEN [att[t] EXCEPT !.ovfail = TRUE]
        ELSE att[t]]

NewRow(s, student_id) ==
    [student_id |-> student_id, course_id |-> att[s].course, date |-> att[s].date,
     status |-> StatusFor(student_id, att[s].present), by |-> att[s].sub]

AttFrame ==
    UNCHANGED <<backend, users, courses, enrollment, sess, last, enrolledOk, forumVars>>

\* ---- the document backend.  src/database.py holds the calls of a submission
\* ---- (get_course_students, delete_attendance_for_date, record_attendance) and not
\* ---- the handler that makes them: doc_roster and doc_return put them in the order
\* ---- of the specification's recordAttendance (roster, replace the (course, date)
\* ---- rows by delete-then-write), which is the order of take_attendance in
\* ---- src/app.py.  Each call is one MongoDB operation, applied at once.

doc_roster(s, course_id, date, present) ==
    /\ backend = "doc"
    /\ get_db_connection
    /\ ~ Active(s)
    /\ nsub < MaxSubs
    /\ att' = Overlapping(s, course_id, date,
                 Begun(s, to_object_id(course_id), date, present,
                       get_course_students(course_id)))
    /\ nsub' = nsub + 1
    /\ done' = NotDone
    /\ UNCHANGED <<attendance, recorded>>
    /\ AttFrame

\* delete_attendance_for_date(course_id, date)
delete_attendance_for_date(s) ==
    /\ backend = "doc"
    /\ get_db_connection
    /\ att[s].pc = "delete"
    /\ attendance' = attendance \ Visible(att[s].course, att[s].date)
    /\ att' = [att EXCEPT ![s].pc = "write"]
    /\ done' = NotDone
    /\ UNCHANGED <<recorded, nsub>>
    /\ AttFrame

\* record_attendance(student_id, course_id, date, status): update_one(..., upsert=True)
record_attendance(s) ==
    LET row == NewRow(s, Head(att[s].roster))
        hit == {r \in attendance : SameKey(r, row)}
    IN  /\ backend = "doc"
        /\ get_db_connection
        /\ att[s].pc = "write"
        /\ att[s].roster # <<>>
        /\ IF hit = {}
           THEN attendance' = attendance \cup {row}
           ELSE \E r \in hit : attendance' = (attendance \ {r}) \cup {row}
        /\ att' = [att EXCEPT ![s].roster = Tail(@)]
        /\ done' = NotDone
        /\ UNCHANGED <<recorded, nsub>>
        /\ AttFrame

doc_return(s) ==
    /\ backend = "doc"
    /\ held' = held
    /\ att[s].pc = "write"
    /\ att[s].roster = <<>>
    /\ done' = Finished(s, "ok")
    /\ recorded' = IF Visible(att[s].course, att[s].date) = {} THEN recorded
                   ELSE recorded \cup {<<att[s].course, att[s].date>>}
    /\ att' = [att EXCEPT ![s] = Idle]
    /\ UNCHANGED <<attendance, nsub>>
    /\ AttFrame

\* get_db_connection() raises (lines 26-27, 48-53: no configuration, connection
\* failure, server selection timeout) in a call of the submission, before that call
\* touches the store; no caller in src catches it: the submission ends there and
\* the earlier calls' effects stay
get_db_connection_raises(s) ==
    /\ backend = "doc"
    /\ get_db_connection
    /\ att[s].pc \in {"delete", "write"}
    /\ att' = Raised(s)
    /\ done' = Finished(s, "InfraError")
    /\ UNCHANGED <<attendance, recorded, nsub>>
    /\ AttFrame

\* ---- the relational backend: take_attendance(course_id) of app.py

\* lines 309-323: the role check and the roster SELECT
take_attendance_select(s, u, course_id, date, present) ==
    /\ backend = "sql"
    /\ conn_close
    /\ ~ Active(s)
    /\ u \in users
    /\ nsub < MaxSubs
    /\ IF u.role # "teacher"
       THEN /\ done' = [out |-> "OnlyTeachers"]
            /\ UNCHANGED <<att, nsub>>
       ELSE /\ att' = Overlapping(s, course_id, date,
                         Begun(s, course_id, date, present, sql_roster(course_id)))
            /\ nsub' = nsub + 1
            /\ done' = NotDone
    /\ UNCHANGED <<attendance, recorded>>
    /\ AttFrame

\* a row another open transaction has deleted is locked until that transaction ends
LockedByOther(s, rows) ==
    \E t \in Sessions \ {s} : Active(t) /\ att[t].deleted \cap rows # {}

\* a DELETE whose WHERE clause matches no row
take_attendance_delete_none(s) ==
    /\ backend = "sql"
    /\ conn_close
    /\ att[s].pc = "delete"
    /\ att' = [att EXCEPT ![s].pc = "write"]
    /\ done' = NotDone
    /\ UNCHANGED <<attendance, recorded, nsub>>
    /\ AttFrame

\* lines 325-326: DELETE FROM attendance WHERE course_id AND date.  The statement
\* works on the rows committed when it starts and waits for a row another
\* transaction has deleted.
take_attendance_delete(s) ==
    LET snap == Visible(att[s].course, att[s].date)
    IN  /\ backend = "sql"
        /\ conn_close
        /\ att[s].pc = "delete"
        /\ IF LockedByOther(s, snap)
           THEN att' = [att EXCEPT ![s].pc = "delete_wait", ![s].snap = snap]
           ELSE att' = [att EXCEPT ![s].pc = "write", ![s].deleted = snap]
        /\ done' = NotDone
        /\ UNCHANGED <<attendance, recorded, nsub>>
        /\ AttFrame

\* the waiting DELETE goes on when the lock holder has ended: of its snapshot it
\* deletes the rows that are still there
take_attendance_delete_resume(s) ==
    /\ backend = "sql"
    /\ conn_close
    /\ att[s].pc = "delete_wait"
    /\ ~ LockedByOther(s, att[s].snap)
    /\ att' = [att EXCEPT ![s].pc = "write", ![s].deleted = att[s].snap \cap attendance]
    /\ done' = NotDone
    /\ UNCHANGED <<attendance, recorded, nsub>>
    /\ AttFrame

\* an INSERT waits while another open transaction holds an uncommitted row, or the
\* uncommitted deletion of a row, with the same key
InsertBlocked(s, row) ==
    \E t \in Sessions \ {s} :
        /\ Active(t)
        /\ \E r \in att[t].inserted \cup att[t].deleted : SameKey(r, row)

\* lines 328-331: one INSERT of the loop.  A unique violation raises out of the
\* handler: nothing is committed and the transaction's changes are discarded.
take_attendance_insert(s) ==
    LET row == NewRow(s, Head(att[s].roster))
    IN  /\ backend = "sql"
        /\ att[s].pc = "write"
        /\ att[s].roster # <<>>
        /\ ~ InsertBlocked(s, row)
        /\ IF SqlUniqueAttendance((attendance \ att[s].deleted) \cup att[s].inserted, row)
           THEN /\ att' = [att EXCEPT ![s].roster = Tail(@),
                                      ![s].inserted = @ \cup {row}]
                /\ done' = NotDone
                /\ conn_close
           ELSE /\ att' = [att EXCEPT ![s] = Idle]
                /\ done' = Finished(s, "IntegrityError")
                /\ conn_left_open
        /\ UNCHANGED <<attendance, recorded, nsub>>
        /\ AttFrame

\* a statement of lines 325-333 (DELETE, INSERT, commit) raises a storage error:
\* the exception leaves the handler, nothing is committed and the transaction's
\* changes are discarded
take_attendance_raises(s) ==
    /\ backend = "sql"
    /\ conn_left_open
    /\ Active(s)
    /\ att' = Raised(s)
    /\ done' = Finished(s, "InfraError")
    /\ UNCHANGED <<attendance, recorded, nsub>>
    /\ AttFrame

\* line 333: conn.commit()
take_attendance_commit(s) ==
    /\ backend = "sql"
    /\ conn_close
    /\ att[s].pc = "write"
    /\ att[s].roster = <<>>
    /\ attendance' = (attendance \ att[s].deleted) \cup att[s].inserted
    /\ done' = Finished(s, "ok")
    /\ recorded' = IF att[s].inserted = {} THEN recorded
                   ELSE recorded \cup {<<att[s].course, att[s].date>>}
    /\ att' = [att EXCEPT ![s] = Idle]
    /\ UNCHANGED nsub
    /\ AttFrame

\* ------------------------------------------------------------ the system
ForumInit ==
    /\ posts = {}
    /\ replies = EmptyBag
    /\ now = 1
    /\ fetched = NotFetched
    /\ repliesMade = [p \in PostKeys \cup {BadStr} |-> 0]

AttInit ==
    /\ attendance = {}
    /\ att = [s \in Sessions |-> Idle]
    /\ done = NotDone
    /\ recorded = {}
    /\ nsub = 0

Init ==
    /\ backend \in {"doc", "sql"}
    /\ users = {}
    /\ courses = {}
    /\ enrollment = EmptyBag
    /\ sess = [s \in Sessions |-> Idle]
    /\ last = NoOp
    /\ enrolledOk = [c \in CourseKeys \cup {BadStr} |-> 0]
    /\ held = FALSE
    /\ ForumInit
    /\ AttInit

Next ==
    \/ \E in \in RegInputs : create_user(in[1], in[2])
    \/ \E t \in TeacherInputs : create_course(t)
    \/ \E u \in EnrollUserInputs, c \in EnrollCourseInputs : enroll_student(u, c)
    \/ \E s \in Sessions, in \in RegInputs : register_select(s, in[1], in[2])
    \/ \E s \in Sessions : register_insert(s)
    \/ \E u \in users : sql_create_course(u)
    \/ \E s \in Sessions, u \in users, c \in CourseKeys : enroll_select(s, u, c)
    \/ \E s \in Sessions : enroll_insert(s)
    \/ \E u \in {BadStr, Oid(2)} : ask_is_enrolled(u, Oid(1))

Spec == Init /\ [][Next]_vars

\* A state Spec reaches: ann (teacher) owns course 1 and bob (student) is enrolled in
\* it; cat (student) is registered.
Ann == [id |-> Oid(1), username |-> "ann", role |-> "teacher"]
Bob == [id |-> Oid(2), username |-> "bob", role |-> "student"]
Cat == [id |-> Oid(3), username |-> "cat", role |-> "student"]

Populated ==
    /\ backend \in {"doc", "sql"}
    /\ users = {Ann, Bob, Cat}
    /\ courses = {[id |-> Oid(1), teacher_id |-> Oid(1)]}
    /\ enrollment = SetToBag({[user_id |-> Oid(2), course_id |-> Oid(1)]})
    /\ sess = [s \in Sessions |-> Idle]
    /\ last = NoOp
    /\ enrolledOk = [c \in CourseKeys \cup {BadStr} |-> IF c = Oid(1) THEN 1 ELSE 0]
    /\ held = (backend = "doc")

ForumSpecInit ==
    /\ Populated
    /\ ForumInit
    /\ AttInit

ForumNext ==
    \/ Tick
    \/ \E c \in PostCourseInputs : create_post(c, Oid(2))
    \/ \E p \in PostTokens : create_reply(p)
    \/ \E c \in CourseKeys : post_question(Bob, c)
    \/ \E p \in PostKeys : post_reply(Bob, p)
    \/ \E c \in PostCourseInputs : fetch_course_posts(c)
    \/ \E u \in users, c \in CourseKeys : course(u, c)

SpecForum == ForumSpecInit /\ [][ForumNext]_vars

\* the populated state after one submission: bob marked present in course 1 on d1
AttSpecInit ==
    /\ Populated
    /\ ForumInit
    /\ attendance = {[student_id |-> Oid(2), course_id |-> Oid(1), date |-> "d1",
                      status |-> "present", by |-> 1]}
    /\ att = [s \in Sessions |-> Idle]
    /\ done = NotDone
    /\ recorded = {<<Oid(1), "d1">>}
    /\ nsub = 1

AttNext ==
    \/ \E s \in Sessions, c \in CourseIds, d \in Dates, P \in PresentInputs :
          doc_roster(s, c, d, P)
    \/ \E s \in Sessions : delete_attendance_for_date(s)
    \/ \E s \in Sessions : record_attendance(s)
    \/ \E s \in Sessions : doc_return(s)
    \/ \E s \in Sessions : get_db_connection_raises(s)
    \/ \E s \in Sessions, u \in users, c \in CourseIds, d \in Dates, P \in PresentInputs :
          take_attendance_select(s, u, c, d, P)
    \/ \E s \in Sessions : take_attendance_delete(s)
    \/ \E s \in Sessions : take_attendance_delete_resume(s)
    \/ \E s \in Sessions : take_attendance_insert(s)
    \/ \E s \in Sessions : take_attendance_commit(s)
    \/ \E s \in Sessions : take_attendance_raises(s)
    \/ enroll_student(Oid(3), Oid(1))
    \/ enroll_select(1, Cat, Oid(1))
    \/ enroll_insert(1)

SpecAtt == AttSpecInit /\ [][AttNext]_vars

\* ------------------------------------------------- views of either backend

EnrolledCourses(student_id) ==
    IF backend = "doc" THEN get_student_courses(student_id)
    ELSE sql_enrolled_courses(student_id)

AvailableCourses(student_id) ==
    IF backend = "doc" THEN get_available_courses(student_id)
    ELSE sql_available_courses(student_id)

IsEnrolled(user_id, course_id) ==
    IF backend = "doc" THEN is_enrolled(user_id, course_id)
    ELSE sql_is_enrolled(user_id, course_id)

\* the tokens a caller may pass for the key id: on the document backend the key or
\* its string, on the relational backend the key
TokensOf(id) ==
    IF backend = "doc" THEN {id, Str(id.v)} ELSE {id}

TeacherCourses(teacher_id) ==
    IF backend = "doc" THEN get_teacher_courses(teacher_id)
    ELSE sql_teacher_courses(to_object_id(teacher_id))

\* ------------------------------------------------------------------ claims

\* C1: in every reachable state there is at most one Enrollment row for any
\* (user_id, course_id) pair, and no enroll that found the pair present inserted a row.
C1_AtMostOneEnrollmentRow ==
    /\ \A e \in Rows(enrollment) : CopiesIn(e, enrollment) = 1
    /\ (last.op = "enroll" /\ last.pre) => last.out # "ok"

\* C1 witness: a duplicate enroll was attempted against an existing row and rejected
C1_DuplicateAttempted ==
    /\ last.op = "enroll" /\ last.pre
    /\ last.out \in {"DuplicateKeyError", "IntegrityError"}
    /\ BagCardinality(enrollment) >= 1

\* C2: for every student S the enrolled-courses result and the available-courses
\* result are disjoint and together hold every course: a course is available for S
\* exactly when no Enrollment row (S, course) exists.
C2_CoursePartition ==
    \A S \in StudentKeys :
        /\ Ids(EnrolledCourses(S)) \cap Ids(AvailableCourses(S)) = {}
        /\ Ids(EnrolledCourses(S)) \cup Ids(AvailableCourses(S)) = CourseIds
        /\ \A c \in CourseIds :
              c \in Ids(AvailableCourses(S))
                <=> ~ BagIn([user_id |-> S, course_id |-> c], enrollment)

\* C5: an enroll invoked while the Enrollment row exists reports AlreadyEnrolled
\* (never a raw duplicate-key error).
C5_DuplicateReportsAlreadyEnrolled ==
    (last.op = "enroll" /\ last.pre) => last.out = "AlreadyEnrolled"

\* C6: no two User rows share a username, and a registration of an existing
\* username yields DuplicateUsername, not an unqualified storage error.
C6_DuplicateUsernameReported ==
    /\ \A u, w \in users : u.username = w.username => u = w
    /\ (last.op = "create_user" /\ last.pre) => last.out = "DuplicateUsername"

\* C7: getTeacherCourses(T) returns exactly the courses whose teacher_id is T, each
\* once, each with enrolled_count equal to the number of enrollments made for that
\* course (0 for a course nobody enrolled in; a rejected duplicate does not count).
C7_TeacherCoursesCounted ==
    \A T \in UserTokens :
        LET R == TeacherCourses(T)
        IN  /\ Ids(R) = {c.id : c \in {c \in courses : c.teacher_id = to_object_id(T)}}
            /\ Cardinality(R) = Cardinality(Ids(R))
            /\ \A r \in R : r.enrolled_count = enrolledOk[r.id]

\* C7 witness: a teacher owns a course without enrollments and one with an
\* enrollment, and the last enroll attempt was a rejected duplicate
C7_ZeroAndCountedAfterDuplicate ==
    /\ last.op = "enroll" /\ last.pre /\ last.out # "ok"
    /\ \E T \in UserKeys :
          /\ \E r \in TeacherCourses(T) : r.enrolled_count = 0
          /\ \E r \in TeacherCourses(T) : r.enrolled_count >= 1

\* C10: createCourse with a teacherId that does not resolve to a teacher-role user
\* fails and inserts nothing, so every Course row references an existing user with
\* role teacher.
C10_TeacherValidated ==
    /\ (last.op = "create_course" /\ ~ last.pre) => last.out # "ok"
    /\ \A c \in courses :
           \E u \in users : u.id = c.teacher_id /\ u.role = "teacher"

\* C11: a malformed identifier token is never passed through by the normalizer as
\* if it were a canonical id (no operation that normalizes its arguments stores one
\* as a key), and the operations that receive one treat it as not found:
\* get_user_by_id and get_course return no row, is_enrolled answers false.
C11_MalformedIdIsNotFound ==
    /\ \A e \in Rows(enrollment) :
          \A v \in {e.user_id, e.course_id} : v.k = "str" => ValidObjectIdString(v)
    /\ \A v \in {t \in UserTokens \cup CourseTokens : t.k = "str" /\ ~ ValidObjectIdString(t)} :
          /\ get_user_by_id(v) = {}
          /\ get_course(v) = {}
    /\ (last.op = "is_enrolled" /\ last.pre) => last.out = "false"

\* C12: every connection an operation acquires is released on every exit path: when
\* no operation is in flight, no connection is held.
C12_NoConnectionHeldAtRest ==
    (\A s \in Sessions : sess[s] = Idle /\ ~ Active(s)) => ~ held

\* C8: every post a get_course_posts call returns carries reply_count equal to the
\* number of replies created for that post up to the call.
C8_ReplyCountLive ==
    fetched.fresh =>
        \A i \in DOMAIN fetched.result :
            fetched.result[i].reply_count = repliesMade[fetched.result[i].id]

\* C8 witness: a call returned a post with two or more replies
C8_FetchedWithReplies ==
    /\ fetched.fresh
    /\ \E i \in DOMAIN fetched.result : fetched.result[i].reply_count >= 2

\* C9: get_course_posts returns the posts by timestamp descending, and posts with
\* equal timestamps in insertion/id order.
C9_OrderedWithTieBreak ==
    fetched.fresh =>
        \A i, j \in DOMAIN fetched.result :
            i < j =>
                \/ fetched.result[i].timestamp > fetched.result[j].timestamp
                \/ /\ fetched.result[i].timestamp = fetched.result[j].timestamp
                   /\ fetched.result[i].id.v < fetched.result[j].id.v

\* the roster of a course as the active backend reads it
CurrentRoster(course_id) ==
    IF backend = "doc" THEN get_course_students(course_id) ELSE sql_roster(course_id)

StudentStatus(rows) ==
    {[student_id |-> r.student_id, status |-> r.status] : r \in rows}

\* C3: a submission for (K, D) that no other submission for (K, D) overlapped
\* completes, and when it has completed the rows for (K, D) are exactly one row per
\* student of the roster it read (the currently enrolled students, when nobody
\* enrolled meanwhile), present if the student's id was submitted and absent
\* otherwise, all written by this submission: nothing of an earlier submission is
\* left or merged in.
C3_SnapshotReplaced ==
    (done.out \in {"ok", "IntegrityError"} /\ ~ done.ov) =>
        LET V == Visible(done.course, done.date)
        IN  /\ done.out = "ok"
            /\ StudentStatus(V) =
                  {[student_id |-> r, status |-> StatusFor(r, done.present)] :
                      r \in done.roster}
            /\ Cardinality(V) = Cardinality(done.roster)
            /\ \A r \in V : r.by = done.sub
            /\ done.nenr = BagCardinality(enrollment) =>
                  done.roster = CurrentRoster(done.course)

\* C3 witness: a second submission for an already recorded (K, D), with two students
\* on the roster, has completed
C3_Resubmitted ==
    /\ done.out = "ok" /\ ~ done.ov /\ done.again
    /\ Cardinality(done.roster) = 2
    /\ done.nenr = BagCardinality(enrollment)

\* C4: while a resubmission for an already recorded (course, date) is in flight, a
\* reader never sees zero attendance rows for that (course, date).
C4_NeverEmptyWhileResubmitting ==
    \A s \in Sessions :
        (Active(s) /\ <<att[s].course, att[s].date>> \in recorded) =>
            Visible(att[s].course, att[s].date) # {}

\* C13: when submissions for the same (course, date) have run concurrently, without
\* a storage failure, and all of them have finished, none has failed with a duplicate-key error and the rows of
\* (course, date) are one submission's snapshot: one row per student, all written by
\* the same submission, and for the roster that submission read.
C13_ConcurrentSubmissionsSerialize ==
    (/\ done.out \in {"ok", "IntegrityError"}
     /\ done.ov /\ ~ done.ovfail
     /\ \A s \in Sessions : ~ SameTarget(s, done.course, done.date))
    => LET V == Visible(done.course, done.date)
       IN  /\ done.out = "ok"
           /\ done.roster # {} => V # {}
           /\ \A r, q \in V : r.by = q.by
           /\ \A r, q \in V : r.student_id = q.student_id => r = q
           /\ (\A r \in V : r.by = done.sub) => {r.student_id : r \in V} = done.roster

\* C14: a submission for (course, date) changes only the rows of (course, date) that
\* belong to students on the roster it read: every attendance row a step removes or
\* overwrites is such a row of a submission in flight; rows of students not on that
\* roster, of other courses and of other dates stay as they are.
C14_OnlyRosterRowsChange ==
    [][\A r \in attendance \ attendance' :
          \E s \in Sessions :
              /\ SameTarget(s, r.course_id, r.date)
              /\ r.student_id \in att[s].full]_vars

\* C15: when a submission fails with a storage error (and no other submission for
\* the same (course, date) ran during it), the rows of (course, date) visible
\* afterwards are the complete prior snapshot or the complete new one, never a
\* partially written one.
C15_FailureLeavesWholeSnapshot ==
    (done.out = "InfraError" /\ ~ done.ov) =>
        LET V == Visible(done.course, done.date)
        IN  \/ V = done.prior
            \/ /\ StudentStatus(V) =
                     {[student_id |-> r, status |-> StatusFor(r, done.present)] :
                         r \in done.roster}
               /\ \A r \in V : r.by = done.sub

\* C16: the three enrollment views agree: for every user u and course c,
\* is_enrolled(u, c) holds exactly when c is among u's enrolled courses and, when u
\* is a student, exactly when u is in the roster of c; a roster never holds a
\* teacher-role user or a user without an Enrollment row for the course.
C16_EnrollmentViewsAgree ==
    /\ \A u \in users, c \in courses :
          \A ut \in TokensOf(u.id), ct \in TokensOf(c.id) :
              /\ IsEnrolled(ut, ct) <=> c.id \in Ids(EnrolledCourses(ut))
              /\ u.role = "student" => (IsEnrolled(ut, ct) <=> u.id \in CurrentRoster(ct))
    /\ \A ct \in CourseTokens :
          \A x \in CurrentRoster(ct) :
              /\ \E u \in users : u.id = x /\ u.role = "student"
              /\ BagIn([user_id |-> x, course_id |-> to_object_id(ct)], enrollment)

\* C16 witness: a student and a teacher-role user both have an Enrollment row for an
\* existing course, and another student has none
C16_StudentAndTeacherEnrolled ==
    \E c \in courses :
        /\ \E u \in users : u.role = "student" /\ IsEnrolled(u.id, c.id)
        /\ \E u \in users : u.role = "teacher" /\ IsEnrolled(u.id, c.id)
        /\ \E u \in users : u.role = "student" /\ ~ IsEnrolled(u.id, c.id)

====
